---- MODULE Spec2Model ----
(***************************************************************************)
(* IMOS (streamlit_app.py): the document store (table pdf_documents), the  *)
(* embedder, the retriever (semantic_search), the conversation context     *)
(* builder and answer generator boundary (answer_query_with_groq), the     *)
(* chat turn (chat_page), the batch import (import_pdfs), and the session: *)
(* credentials and consent flow (auth_improved.py), pages and sidebar.     *)
(*                                                                         *)
(* Conventions of the model                                                *)
(*  - a text is a sequence of one-character tokens (<<>> is the empty      *)
(*    string); other Python strings are TLA+ strings;                      *)
(*  - Python None for user_id is the string NoUser; SQL NULL and the text  *)
(*    of the embedding column are the records SqlNull, EmptyText, BadText  *)
(*    and JsonText(v) (the text json.dumps(v) writes);                     *)
(*  - a float score is the exact value dot / sqrt(nn), kept as the pair    *)
(*    [dot, nn]; nn = 0 is the NaN that 0.0 / 0.0 yields in numpy.         *)
(*    Rounding of float64 is not modelled;                                 *)
(*  - table pdf_documents is the sequence of its rows in rowid order (the  *)
(*    order SELECT enumerates them in); the columns drive_link,            *)
(*    modified_time, size, parent and last_indexed are written and copied  *)
(*    through but never read by any decision of the code, and are left out.*)
(***************************************************************************)
EXTENDS Integers, Sequences, FiniteSets, TLC

VARIABLES
    pdf_documents,          \* memoryos.db, table pdf_documents (rowid order)
    embed_model,            \* st.session_state.embed_model
    conversation_history,   \* st.session_state.conversation_history
    call,                   \* the operation that ran last: arguments and outcome
    last_upsert,            \* history variable: per file_id, the last save_pdf_to_db
    batch,                  \* import_pdfs: the loop's position and counters
    import_complete,        \* st.session_state.import_complete
    txn,                    \* save_pdf_to_db in other sessions: calls in flight, the
                            \* database's write lock
    google_credentials,     \* st.session_state.google_credentials
    auth_flow,              \* st.session_state: oauth_flow, auth_step, auth_url
    current_page,           \* st.session_state.current_page
    drive_pdfs_cache        \* st.session_state.drive_pdfs_cache

vars == <<pdf_documents, embed_model, conversation_history, call, last_upsert, batch,
          import_complete, txn, google_credentials, auth_flow, current_page,
          drive_pdfs_cache>>

----------------------------------------------------------------------------
(* Bounds and program constants *)

MaxK == 1                   \* top_k ranges over -1..MaxK
RelevanceFloorDen == 10     \* score > 0.1, i.e. score > 1/RelevanceFloorDen
SnippetLen == 400           \* row[6][:400]
HistoryWindow == 10         \* cleaned_messages[-10:]
EmbedCap == 4000            \* text[:4000]
ChatTopK == 5               \* semantic_search(user_query, top_k=5, ...)

----------------------------------------------------------------------------
(* Python helpers *)

Min(a, b) == IF a < b THEN a ELSE b
Max(a, b) == IF a > b THEN a ELSE b

\* s[:n] of Python: a negative n counts from the end.
PyPrefix(s, n) ==
    IF n >= 0 THEN SubSeq(s, 1, Min(n, Len(s)))
    ELSE SubSeq(s, 1, Max(Len(s) + n, 0))

\* s[n:] of Python for a negative n (s[-10:]): the last -n entries.
PySuffix(s, n) ==
    IF n >= 0 THEN SubSeq(s, Min(n, Len(s)) + 1, Len(s))
    ELSE SubSeq(s, Max(Len(s) + n, 0) + 1, Len(s))

----------------------------------------------------------------------------
(* Values *)

NoUser == "<None>"
NoModel == "<None>"
PrimaryModel == "all-MiniLM-L6-v2"
FallbackModel == "paraphrase-MiniLM-L3-v2"

SqlNull == [sql |-> "NULL", list |-> <<>>]
EmptyText == [sql |-> "''", list |-> <<>>]
BadText == [sql |-> "not json", list |-> <<>>]
JsonText(v) == [sql |-> "json", list |-> v]

DriveFileIds == {"f1", "f2", "f3"}      \* the files of the Drive listing
FileIds == {"f1", "f2"}                 \* those the store's own actions upsert
UserIds == {"u1", "u2"}
SessionUser == "u1"         \* st.session_state.user_id
NameOf(f) == IF f = "f1" THEN "one.pdf" ELSE IF f = "f2" THEN "two.pdf" ELSE "three.pdf"

ZeroVec == <<0, 0, 0>>
VecAdd(a, b) == <<a[1] + b[1], a[2] + b[2], a[3] + b[3]>>
Scale(n, v) == <<n * v[1], n * v[2], n * v[3]>>

\* The two models as test doubles: each token has a vector, a text the sum.
TokenVec(model, ch) ==
    IF model = PrimaryModel
    THEN CASE ch = "a" -> <<1, 1, 0>>
           [] ch = "b" -> <<1, 0, 7>>
           [] ch = "n" -> <<-1, -1, 0>>
           [] OTHER    -> ZeroVec
    ELSE CASE ch = "a" -> <<1, 0, 0>>
           [] ch = "b" -> <<1, 1, 0>>
           [] ch = "n" -> <<-1, 0, 0>>
           [] OTHER    -> ZeroVec

Count(text, ch) == Cardinality({i \in 1..Len(text) : text[i] = ch})

\* model.encode(text): the sum of the vectors of all the tokens of the text it is
\* handed, whatever its length (every other token has the zero vector).
encode(model, text) ==
    VecAdd(Scale(Count(text, "a"), TokenVec(model, "a")),
           VecAdd(Scale(Count(text, "b"), TokenVec(model, "b")),
                  Scale(Count(text, "n"), TokenVec(model, "n"))))

----------------------------------------------------------------------------
(* get_embed_model: lazy load, one fallback *)

\* One call of SentenceTransformer(name) and whether it returned a model.
Load(name, ok) == [model |-> name, loaded |-> ok]

\* Mutant: no test of st.session_state.embed_model, every call loads.
get_embed_model_reloading(cur, primary_ok, fallback_ok) ==
    IF primary_ok
    THEN [embed_model |-> PrimaryModel, raised |-> FALSE,
          loads |-> <<Load(PrimaryModel, TRUE)>>]
    ELSE IF fallback_ok
    THEN [embed_model |-> FallbackModel, raised |-> FALSE,
          loads |-> <<Load(PrimaryModel, FALSE), Load(FallbackModel, TRUE)>>]
    ELSE [embed_model |-> cur, raised |-> TRUE,
          loads |-> <<Load(PrimaryModel, FALSE), Load(FallbackModel, FALSE)>>]

\* Mutant: the except clause of the primary load re-raises, no fallback.
get_embed_model_no_fallback(cur, primary_ok, fallback_ok) ==
    IF cur # NoModel THEN [embed_model |-> cur, raised |-> FALSE, loads |-> <<>>]
    ELSE IF primary_ok
    THEN [embed_model |-> PrimaryModel, raised |-> FALSE,
          loads |-> <<Load(PrimaryModel, TRUE)>>]
    ELSE [embed_model |-> NoModel, raised |-> TRUE,
          loads |-> <<Load(PrimaryModel, FALSE)>>]

\* loads lists the calls of SentenceTransformer(...) the call makes, in order.
get_embed_model(cur, primary_ok, fallback_ok) ==
    IF cur # NoModel THEN [embed_model |-> cur, raised |-> FALSE, loads |-> <<>>]
    ELSE IF primary_ok
    THEN [embed_model |-> PrimaryModel, raised |-> FALSE,
          loads |-> <<Load(PrimaryModel, TRUE)>>]
    ELSE IF fallback_ok
    THEN [embed_model |-> FallbackModel, raised |-> FALSE,
          loads |-> <<Load(PrimaryModel, FALSE), Load(FallbackModel, TRUE)>>]
    ELSE [embed_model |-> NoModel, raised |-> TRUE,
          loads |-> <<Load(PrimaryModel, FALSE), Load(FallbackModel, FALSE)>>]

----------------------------------------------------------------------------
(* cosine_sim: np.dot(a, b) / (np.linalg.norm(a) * np.linalg.norm(b)) *)

RECURSIVE Dot(_, _)
Dot(a, b) == IF a = <<>> THEN 0 ELSE Head(a) * Head(b) + Dot(Tail(a), Tail(b))

NaN == [raised |-> FALSE, nan |-> TRUE, dot |-> 0, nn |-> 0]

cosine_sim(a, b) ==
    IF Len(a) # Len(b)
    THEN [raised |-> TRUE, nan |-> FALSE, dot |-> 0, nn |-> 0]   \* np.dot: ValueError
    ELSE IF Dot(a, a) * Dot(b, b) = 0
    THEN NaN                                                      \* 0.0 / 0.0
    ELSE [raised |-> FALSE, nan |-> FALSE, dot |-> Dot(a, b), nn |-> Dot(a, a) * Dot(b, b)]

\* Mutant: score >= 0.1.
AboveFloor_OrEqual(s) ==
    /\ ~s.nan
    /\ s.dot > 0
    /\ RelevanceFloorDen * RelevanceFloorDen * s.dot * s.dot >= s.nn

\* s > 1/10 for a float s; every comparison with NaN is false.
AboveFloor(s) ==
    /\ ~s.nan
    /\ s.dot > 0
    /\ RelevanceFloorDen * RelevanceFloorDen * s.dot * s.dot > s.nn

\* s > t for two floats that are not NaN.
ScoreGT(s, t) ==
    IF s.dot > 0 /\ t.dot <= 0 THEN TRUE
    ELSE IF s.dot <= 0 /\ t.dot > 0 THEN FALSE
    ELSE IF s.dot > 0 THEN s.dot * s.dot * t.nn > t.dot * t.dot * s.nn
    ELSE s.dot * s.dot * t.nn < t.dot * t.dot * s.nn

----------------------------------------------------------------------------
(* save_pdf_to_db: INSERT OR REPLACE on the UNIQUE column file_id *)

DeleteFileId(rows, file_id) == SelectSeq(rows, LAMBDA r : r.file_id # file_id)

Row(user_id, file_id, name, text_content, embedding) ==
    [user_id |-> user_id, file_id |-> file_id, name |-> name,
     text_content |-> text_content, embedding |-> embedding]

\* SELECT user_id FROM pdf_documents WHERE file_id = ? (NoUser: no such row)
OwnerOf(rows, file_id) ==
    IF \E i \in 1..Len(rows) : rows[i].file_id = file_id
    THEN rows[CHOOSE i \in 1..Len(rows) : rows[i].file_id = file_id].user_id
    ELSE NoUser

\* Mutant: the replaced row keeps the user_id it had (an UPDATE that leaves
\* the user_id column out).
save_pdf_to_db_keeps_owner(rows, user_id, file_id, name, text_content, embedding) ==
    Append(DeleteFileId(rows, file_id),
           Row(IF OwnerOf(rows, file_id) = NoUser THEN user_id
               ELSE OwnerOf(rows, file_id),
               file_id, name, text_content, embedding))

\* Mutant: a plain INSERT into a table without the UNIQUE constraint.
save_pdf_to_db_insert(rows, user_id, file_id, name, text_content, embedding) ==
    Append(rows, Row(user_id, file_id, name, text_content, embedding))

save_pdf_to_db(rows, user_id, file_id, name, text_content, embedding) ==
    Append(DeleteFileId(rows, file_id),
           Row(user_id, file_id, name, text_content, embedding))

----------------------------------------------------------------------------
(* semantic_search *)

\* Mutant: the WHERE clause without the user_id test.
SelectEmbedded_any_user(rows, user_id) ==
    SelectSeq(rows, LAMBDA r : r.embedding.sql # "NULL")

\* if user_id: ... WHERE user_id = ? AND embedding IS NOT NULL
\* else:       ... WHERE embedding IS NOT NULL
SelectEmbedded(rows, user_id) ==
    IF user_id # NoUser /\ user_id # ""
    THEN SelectSeq(rows, LAMBDA r : r.user_id = user_id /\ r.embedding.sql # "NULL")
    ELSE SelectSeq(rows, LAMBDA r : r.embedding.sql # "NULL")

\* The body of the loop over c.fetchall(): the entry appended for one row, if any.
RowResult(query_emb, row) ==
    IF row.embedding.sql = "''" THEN <<>>               \* if row[7]: an empty string
    ELSE IF row.embedding.sql # "json" THEN <<>>        \* json.loads raises; continue
    ELSE LET score == cosine_sim(query_emb, row.embedding.list)
         IN  IF score.raised THEN <<>>                  \* np.dot raises; continue
             ELSE IF AboveFloor(score)
             THEN << [file_id |-> row.file_id, name |-> row.name,
                      snippet |-> PyPrefix(row.text_content, SnippetLen),
                      score |-> [dot |-> score.dot, nn |-> score.nn]] >>
             ELSE <<>>

\* The value cosine_sim returns in the loop, for each fetched row that reaches it.
RECURSIVE LoopScores(_, _)
LoopScores(query_emb, fetched) ==
    IF fetched = <<>> THEN <<>>
    ELSE LET row == Head(fetched)
             score == cosine_sim(query_emb, row.embedding.list)
         IN  (IF row.embedding.sql = "json" /\ ~score.raised
              THEN << [file_id |-> row.file_id, query_emb |-> query_emb,
                       pdf_emb |-> row.embedding.list, score |-> score] >>
              ELSE <<>>) \o LoopScores(query_emb, Tail(fetched))

RECURSIVE ScanRows(_, _)
ScanRows(query_emb, fetched) ==
    IF fetched = <<>> THEN <<>>
    ELSE RowResult(query_emb, Head(fetched)) \o ScanRows(query_emb, Tail(fetched))

\* Mutant: an entry goes before the entries of equal score.
RECURSIVE InsertDesc_before_equal(_, _)
InsertDesc_before_equal(sorted, e) ==
    IF sorted = <<>> THEN <<e>>
    ELSE IF ~ScoreGT(Head(sorted).score, e.score) THEN <<e>> \o sorted
    ELSE <<Head(sorted)>> \o InsertDesc_before_equal(Tail(sorted), e)

\* sorted(results, key=score, reverse=True): stable, descending.
RECURSIVE InsertDesc(_, _)
InsertDesc(sorted, e) ==
    IF sorted = <<>> THEN <<e>>
    ELSE IF ScoreGT(e.score, Head(sorted).score) THEN <<e>> \o sorted
    ELSE <<Head(sorted)>> \o InsertDesc(Tail(sorted), e)

RECURSIVE SortedDesc(_)
SortedDesc(results) ==
    IF results = <<>> THEN <<>>
    ELSE InsertDesc(SortedDesc(SubSeq(results, 1, Len(results) - 1)),
                    results[Len(results)])

\* What the collaborators of one call do: the two model loads, model.encode and
\* the database (sqlite3.connect / execute).
Envs ==
    { [primary_ok |-> TRUE,  fallback_ok |-> TRUE,  encode_ok |-> TRUE,  db_ok |-> TRUE],
      [primary_ok |-> FALSE, fallback_ok |-> TRUE,  encode_ok |-> TRUE,  db_ok |-> TRUE],
      [primary_ok |-> FALSE, fallback_ok |-> FALSE, encode_ok |-> TRUE,  db_ok |-> TRUE],
      [primary_ok |-> TRUE,  fallback_ok |-> TRUE,  encode_ok |-> FALSE, db_ok |-> TRUE],
      [primary_ok |-> TRUE,  fallback_ok |-> TRUE,  encode_ok |-> TRUE,  db_ok |-> FALSE] }

\* Lines 156-194 once the query is embedded: the SELECT's rows are scored, the
\* entries above the floor sorted and cut.
rank_rows(query_emb, fetched, top_k, g, rows) ==
    [raised |-> FALSE,
     results |-> PyPrefix(SortedDesc(ScanRows(query_emb, fetched)), top_k),
     scores |-> LoopScores(query_emb, fetched),
     embed_model |-> g.embed_model,
     pdf_documents |-> rows, loads |-> g.loads]

\* semantic_search from line 152 on (the query is not empty): whether it raised,
\* the list returned, the cosine values of the loop, the session's embed_model and
\* the table after the call (only SELECT statements are executed), and the model
\* loads made.
search_body(query, top_k, user_id, rows, cur, env) ==
    LET g == get_embed_model(cur, env.primary_ok, env.fallback_ok)
    IN  IF g.raised \/ ~env.encode_ok \/ ~env.db_ok
        THEN [raised |-> TRUE, results |-> <<>>, scores |-> <<>>,
              embed_model |-> g.embed_model, pdf_documents |-> rows, loads |-> g.loads]
        ELSE rank_rows(encode(g.embed_model, query), SelectEmbedded(rows, user_id),
                       top_k, g, rows)

\* Mutant: without the test of the empty query.
semantic_search_no_guard(query, top_k, user_id, rows, cur, env) ==
    search_body(query, top_k, user_id, rows, cur, env)

\* Mutant: a search that deletes the rows it cannot score.
semantic_search_purging(query, top_k, user_id, rows, cur, env) ==
    IF query = <<>>
    THEN [raised |-> FALSE, results |-> <<>>, scores |-> <<>>, embed_model |-> cur,
          pdf_documents |-> rows, loads |-> <<>>]
    ELSE [search_body(query, top_k, user_id, rows, cur, env) EXCEPT
              !.pdf_documents = SelectSeq(rows, LAMBDA r : r.embedding.sql = "json")]

semantic_search(query, top_k, user_id, rows, cur, env) ==
    IF query = <<>>
    THEN [raised |-> FALSE, results |-> <<>>, scores |-> <<>>, embed_model |-> cur,
          pdf_documents |-> rows, loads |-> <<>>]
    ELSE search_body(query, top_k, user_id, rows, cur, env)

----------------------------------------------------------------------------
(* answer_query_with_groq: the context builder and the generator call *)

\* An entry of the history is any Python value: py says whether it is a dict,
\* keys which of 'role', 'content', 'sources' it has. A content is a Python value
\* too: its type and the text str() gives for it.
Str(text) == [type |-> "str", str |-> text]
PyStr(value) == value.str

Turn(role, content) ==
    [py |-> "dict", keys |-> {"role", "content"}, role |-> role,
     content |-> content, sources |-> <<>>]
AssistantTurn(content, sources) ==
    [py |-> "dict", keys |-> {"role", "content", "sources"}, role |-> "assistant",
     content |-> content, sources |-> sources]

Apology == << "Sorry, I encountered an error while processing your request." >>

\* "\n---\n".join(f"{doc['name']}:\n{doc['snippet']}" for doc in top_matches)
RECURSIVE JoinContext(_)
JoinContext(top_matches) ==
    IF top_matches = <<>> THEN <<>>
    ELSE LET doc == Head(top_matches)
             block == <<doc.name, ":\n">> \o doc.snippet
         IN  IF Len(top_matches) = 1 THEN block
             ELSE block \o << "\n---\n" >> \o JoinContext(Tail(top_matches))

SystemMessage(top_matches) ==
    [role |-> "system",
     content |-> << "You are IMOS, ...\nRELEVANT DOCUMENT CONTEXT:\n" >>
                 \o JoinContext(top_matches) \o << "\n\nGuidelines:\n..." >>]

\* Mutant: the test of the role is missing.
CleanMessage_any_role(msg) ==
    IF msg.py = "dict" /\ "role" \in msg.keys /\ "content" \in msg.keys
    THEN << [role |-> msg.role, content |-> PyStr(msg.content)] >>
    ELSE <<>>

\* The loop of lines 219-226 for one entry.
CleanMessage(msg) ==
    IF msg.py = "dict" /\ "role" \in msg.keys /\ "content" \in msg.keys
    THEN IF msg.role \in {"user", "assistant"}
         THEN << [role |-> msg.role, content |-> PyStr(msg.content)] >>
         ELSE <<>>
    ELSE <<>>

RECURSIVE CleanHistory(_)
CleanHistory(history) ==
    IF history = <<>> THEN <<>>
    ELSE CleanMessage(Head(history)) \o CleanHistory(Tail(history))

\* Mutant: cleaned_messages[:10], the oldest turns instead of the most recent.
LimitHistory_oldest(cleaned_messages) ==
    IF Len(cleaned_messages) > HistoryWindow
    THEN PyPrefix(cleaned_messages, HistoryWindow)
    ELSE cleaned_messages

\* if len(cleaned_messages) > 10: cleaned_messages = cleaned_messages[-10:]
LimitHistory(cleaned_messages) ==
    IF Len(cleaned_messages) > HistoryWindow
    THEN PySuffix(cleaned_messages, -HistoryWindow)
    ELSE cleaned_messages

\* Mutant: the system message is appended after the history.
BuildMessages_system_last(history, top_matches) ==
    LimitHistory(CleanHistory(history)) \o <<SystemMessage(top_matches)>>

BuildMessages(history, top_matches) ==
    <<SystemMessage(top_matches)>> \o LimitHistory(CleanHistory(history))

\* What the endpoint does with one request.
ApiOutcomes == {"ok", "network error", "http error", "malformed body"}
Answers == { <<"answer">> }

\* Mutant: the failure path returns the documents found.
answer_query_with_groq_keeps_sources(history, top_matches, api, text) ==
    LET messages == BuildMessages(history, top_matches)
    IN  IF api = "ok"
        THEN [messages |-> messages, answer |-> text, sources |-> top_matches,
              error_shown |-> FALSE, raised |-> FALSE]
        ELSE [messages |-> messages, answer |-> Apology, sources |-> top_matches,
              error_shown |-> TRUE, raised |-> FALSE]

\* api is the outcome of requests.post / raise_for_status / response.json()[...],
\* text the answer of a successful call; every exception of the three is caught.
answer_query_with_groq(history, top_matches, api, text) ==
    LET messages == BuildMessages(history, top_matches)
    IN  IF api = "ok"
        THEN [messages |-> messages, answer |-> text, sources |-> top_matches,
              error_shown |-> FALSE, raised |-> FALSE]
        ELSE [messages |-> messages, answer |-> Apology, sources |-> <<>>,
              error_shown |-> TRUE, raised |-> FALSE]

----------------------------------------------------------------------------
(* The session's credentials and the Drive service (auth_improved.py) *)

\* google_credentials: the key is absent, or holds credentials that are valid,
\* or credentials whose token has expired (credentials.valid is false; the
\* consent flow asks for offline access, so they carry a refresh token).
Absent == "<absent>"

\* The keys oauth_flow and auth_url are present or not; auth_step is 1 or 2, and
\* 0 stands for the absent key.
NoFlow == [oauth_flow |-> FALSE, auth_step |-> 0, auth_url |-> FALSE]

\* drive_pdfs_cache: None, or the list that list_all_pdfs returned.
NoCache == [cached |-> FALSE, pdfs |-> <<>>]
Cached(pdfs) == [cached |-> TRUE, pdfs |-> pdfs]
DriveListing == <<"f1", "f2", "f3">>

session == <<google_credentials, auth_flow, current_page, drive_pdfs_cache>>

\* GoogleDriveAuth.is_authenticated: credentials.refresh(Request()) succeeds or
\* raises (refresh_ok); a refresh that succeeds leaves the credentials valid.
is_authenticated(creds, refresh_ok) ==
    IF creds = Absent THEN [result |-> FALSE, google_credentials |-> creds]
    ELSE IF creds # "valid"
         THEN IF refresh_ok THEN [result |-> TRUE, google_credentials |-> "valid"]
              ELSE [result |-> FALSE, google_credentials |-> creds]
         ELSE [result |-> TRUE, google_credentials |-> creds]

\* GoogleDriveAuth.get_drive_service: None (service FALSE) when the session is
\* not authenticated or build() raises.
get_drive_service(creds, refresh_ok, build_ok) ==
    LET a == is_authenticated(creds, refresh_ok)
    IN  [service |-> a.result /\ build_ok, google_credentials |-> a.google_credentials]

\* list_all_pdfs: the files of the Drive, [] when the Drive holds no PDF and
\* on any exception.
ListOutcomes == {"ok", "no pdf", "error"}
list_all_pdfs(outcome) == IF outcome = "ok" THEN DriveListing ELSE <<>>

----------------------------------------------------------------------------
(* State *)

NoUpsert == [upserted |-> FALSE, user_id |-> "", text_content |-> <<>>,
             embedding |-> SqlNull]
Idle == [pc |-> "idle", selected |-> <<>>, i |-> 0, successful_imports |-> 0,
         attempted |-> <<>>]

\* The sessions (or processes) that call save_pdf_to_db side by side.
Procs == {"p1", "p2"}
NoProc == "<none>"
NoCall == [pc |-> "idle", file_id |-> "", user_id |-> "", text_content |-> <<>>,
           embedding |-> SqlNull, overlapped |-> FALSE]
NoTxn == [lock |-> NoProc, w |-> [p \in Procs |-> NoCall]]

Init ==
    /\ pdf_documents = <<>>
    /\ embed_model = NoModel
    /\ conversation_history = <<>>
    /\ call = [op |-> "init"]
    /\ last_upsert = [f \in DriveFileIds |-> NoUpsert]
    /\ batch = Idle
    /\ import_complete = FALSE
    /\ txn = NoTxn
    /\ google_credentials = Absent
    /\ auth_flow = NoFlow
    /\ current_page = "landing"
    /\ drive_pdfs_cache = NoCache

\* A session that completed the consent flow (exchange_code, lines 102-129 and
\* 252-256 of auth_improved.py) and went to the page by the sidebar; cache is
\* None, or the listing the import page fetched on the way.
SignedIn(page, cache) ==
    /\ google_credentials = "valid"
    /\ auth_flow = [oauth_flow |-> FALSE, auth_step |-> 1, auth_url |-> FALSE]
    /\ current_page = page
    /\ drive_pdfs_cache = cache

----------------------------------------------------------------------------
(* The store on its own: any sequence of save_pdf_to_db *)

Texts == { <<"a">>, <<"b">> }
EmbeddingValues ==
    { SqlNull, EmptyText, BadText, JsonText(<<1, 1>>),
      JsonText(<<1, 1, 0>>), JsonText(<<1, 0, 7>>), JsonText(<<2, 1, 7>>),
      JsonText(ZeroVec) }
Documents ==
    [user_id : UserIds, text_content : Texts, embedding : EmbeddingValues]

SavePdfToDb(inputs) ==
    \E file_id \in FileIds, d \in inputs :
        /\ pdf_documents' = save_pdf_to_db(pdf_documents, d.user_id, file_id,
                                NameOf(file_id), d.text_content, d.embedding)
        /\ last_upsert' = [last_upsert EXCEPT ![file_id] =
                              [upserted |-> TRUE, user_id |-> d.user_id,
                               text_content |-> d.text_content,
                               embedding |-> d.embedding]]
        /\ call' = [op |-> "save_pdf_to_db", file_id |-> file_id,
                    replaced |-> \E i \in 1..Len(pdf_documents) :
                                    pdf_documents[i].file_id = file_id,
                    owner_before |-> OwnerOf(pdf_documents, file_id)]
        /\ UNCHANGED <<session, txn, embed_model, conversation_history, batch, import_complete>>

NextStore == SavePdfToDb(Documents)
SpecStore == Init /\ [][NextStore]_vars

----------------------------------------------------------------------------
(* The retriever over a store that upserts fill *)

Doc(user_id, text_content, embedding) ==
    [user_id |-> user_id, text_content |-> text_content, embedding |-> embedding]

\* Under PrimaryModel and the query "a": scores 1, 3/sqrt(108), exactly 1/10,
\* NaN; then no embedding, and one of another dimension.
SearchDocuments ==
    { Doc("u1", <<"a">>, JsonText(<<1, 1, 0>>)),
      Doc("u2", <<"a", "b">>, JsonText(<<2, 1, 7>>)),
      Doc("u1", <<"b">>, JsonText(<<1, 0, 7>>)),
      Doc("u1", <<"z">>, JsonText(ZeroVec)),
      Doc("u1", <<"a">>, SqlNull),
      Doc("u1", <<"b">>, JsonText(<<1, 1>>)) }

Queries == { <<>>, <<"a">>, <<"z">> }
SearchUsers == {NoUser, "", "u1"}

SemanticSearchOf(queries, top_ks, users) ==
    \E query \in queries, top_k \in top_ks, user_id \in users :
      \E env \in Envs :
        \E r \in {semantic_search(query, top_k, user_id, pdf_documents, embed_model, env)} :
            /\ call' = [op |-> "semantic_search", query |-> query, top_k |-> top_k,
                        user_id |-> user_id, raised |-> r.raised, results |-> r.results,
                        scores |-> r.scores, loads |-> r.loads]
            /\ embed_model' = r.embed_model
            /\ pdf_documents' = r.pdf_documents
            /\ UNCHANGED <<session, txn, conversation_history, last_upsert, batch, import_complete>>

SemanticSearch == SemanticSearchOf(Queries, -1..MaxK, SearchUsers)

NextSearch == SavePdfToDb(SearchDocuments) \/ SemanticSearch
SpecSearch == Init /\ [][NextSearch]_vars

----------------------------------------------------------------------------
(* The retriever's order: one user's documents, scores that differ and tie *)

\* Under PrimaryModel and the query "a": scores 1, 3/sqrt(108) and exactly 1/10.
RankDocuments ==
    { Doc(SessionUser, <<"a">>, JsonText(<<1, 1, 0>>)),
      Doc(SessionUser, <<"a", "b">>, JsonText(<<2, 1, 7>>)),
      Doc(SessionUser, <<"b">>, JsonText(<<1, 0, 7>>)) }

NextRank ==
    \/ SavePdfToDb(RankDocuments)
    \/ SemanticSearchOf({<<"a">>, <<"a", "b">>}, {MaxK, ChatTopK}, {SessionUser})
SpecRank == Init /\ [][NextRank]_vars

----------------------------------------------------------------------------
(* Two sessions' users upserting the same files, each searching its own scope *)

\* Under PrimaryModel and the query "a" both embeddings pass the floor.
OwnerDocuments ==
    { Doc(u, <<"a">>, JsonText(<<1, 1, 0>>)) : u \in UserIds } \cup
    { Doc(u, <<"a", "b">>, JsonText(<<2, 1, 7>>)) : u \in UserIds }

NextOwner ==
    \/ SavePdfToDb(OwnerDocuments)
    \/ SemanticSearchOf({<<"a">>}, {ChatTopK}, UserIds)
SpecOwner == Init /\ [][NextOwner]_vars

----------------------------------------------------------------------------
(* save_pdf_to_db called side by side: connect, execute, commit *)

ConcurrentDocuments ==
    { Doc("u1", <<"a">>, JsonText(<<1, 1, 0>>)),
      Doc("u2", <<"b">>, JsonText(<<1, 0, 7>>)),
      Doc("u1", <<"b">>, SqlNull) }

\* Mutant: ON CONFLICT(file_id) DO UPDATE SET text_content, embedding: the row
\* of the id keeps its other columns.
commit_upsert_merging(rows, w) ==
    IF \E i \in 1..Len(rows) : rows[i].file_id = w.file_id
    THEN [i \in 1..Len(rows) |->
             IF rows[i].file_id = w.file_id
             THEN [rows[i] EXCEPT !.text_content = w.text_content,
                                  !.embedding = w.embedding]
             ELSE rows[i]]
    ELSE Append(rows, Row(w.user_id, w.file_id, NameOf(w.file_id), w.text_content,
                          w.embedding))

\* conn.commit(): the statement of the call w takes effect as a whole.
commit_upsert(rows, w) ==
    save_pdf_to_db(rows, w.user_id, w.file_id, NameOf(w.file_id), w.text_content,
                   w.embedding)

\* save_pdf_to_db is entered: sqlite3.connect.
UpsertConnect(p) ==
    /\ txn.w[p].pc = "idle"
    /\ \E file_id \in FileIds, d \in ConcurrentDocuments :
          txn' = [txn EXCEPT !.w[p] =
                     [pc |-> "connected", file_id |-> file_id, user_id |-> d.user_id,
                      text_content |-> d.text_content, embedding |-> d.embedding,
                      overlapped |-> FALSE]]
    /\ call' = [op |-> "connect"]
    /\ UNCHANGED <<session, pdf_documents, embed_model, conversation_history,
                   last_upsert, batch,
                   import_complete>>

\* c.execute(INSERT OR REPLACE ...): the statement opens a transaction, which
\* takes the database's write lock; its effect is not visible before the commit.
UpsertExecute(p) ==
    /\ txn.w[p].pc = "connected"
    /\ txn.lock = NoProc
    /\ txn' = [txn EXCEPT !.lock = p, !.w[p].pc = "executed"]
    /\ call' = [op |-> "execute"]
    /\ UNCHANGED <<session, pdf_documents, embed_model, conversation_history,
                   last_upsert, batch,
                   import_complete>>

\* c.execute while another connection holds the lock for longer than the
\* timeout: sqlite3.OperationalError (database is locked), nothing is written.
UpsertLocked(p) ==
    /\ txn.w[p].pc = "connected"
    /\ txn.lock # NoProc
    /\ txn' = [txn EXCEPT !.w[p] = NoCall]
    /\ call' = [op |-> "save_pdf_to_db", file_id |-> txn.w[p].file_id,
                raised |-> TRUE, replaced |-> FALSE, overlapped |-> FALSE]
    /\ UNCHANGED <<session, pdf_documents, embed_model, conversation_history,
                   last_upsert, batch,
                   import_complete>>

\* conn.commit(); conn.close(). overlapped: another upsert of the same id was
\* committed while this call was in flight.
UpsertCommit(p) ==
    /\ txn.w[p].pc = "executed"
    /\ pdf_documents' = commit_upsert(pdf_documents, txn.w[p])
    /\ last_upsert' = [last_upsert EXCEPT ![txn.w[p].file_id] =
                          [upserted |-> TRUE, user_id |-> txn.w[p].user_id,
                           text_content |-> txn.w[p].text_content,
                           embedding |-> txn.w[p].embedding]]
    /\ txn' = [lock |-> NoProc,
               w |-> [q \in Procs |->
                         IF q = p THEN NoCall
                         ELSE IF txn.w[q].pc # "idle" /\ txn.w[q].file_id = txn.w[p].file_id
                         THEN [txn.w[q] EXCEPT !.overlapped = TRUE]
                         ELSE txn.w[q]]]
    /\ call' = [op |-> "save_pdf_to_db", file_id |-> txn.w[p].file_id,
                raised |-> FALSE,
                replaced |-> \E i \in 1..Len(pdf_documents) :
                                pdf_documents[i].file_id = txn.w[p].file_id,
                overlapped |-> txn.w[p].overlapped]
    /\ UNCHANGED <<session, embed_model, conversation_history, batch, import_complete>>

NextConcurrent ==
    \E p \in Procs :
        UpsertConnect(p) \/ UpsertExecute(p) \/ UpsertLocked(p) \/ UpsertCommit(p)
SpecConcurrent == Init /\ [][NextConcurrent]_vars

----------------------------------------------------------------------------
(* The context builder on its own: any history, malformed entries included *)

MaxHist == 13               \* histories with malformed entries: up to MaxHist entries
MaxLongHist == 37           \* well-formed histories: up to MaxLongHist entries

EntryKinds == {"not a dict", "no role", "no content", "system", "number"}

\* The i-th turn of a well-formed history: user and assistant alternate.
WellFormedTurn(i) ==
    IF i % 2 = 1 THEN Turn("user", Str(<<"q", ToString(i)>>))
    ELSE AssistantTurn(Str(<<"r", ToString(i)>>), <<>>)

EntryOfKind(kind, i) ==
    CASE kind = "not a dict" ->
            [py |-> "str", keys |-> {}, role |-> "", content |-> Str(<<>>),
             sources |-> <<>>]
      [] kind = "no role" ->
            [py |-> "dict", keys |-> {"content"}, role |-> "",
             content |-> Str(<<"x", ToString(i)>>), sources |-> <<>>]
      [] kind = "no content" ->
            [py |-> "dict", keys |-> {"role"}, role |-> "user",
             content |-> Str(<<>>), sources |-> <<>>]
      [] kind = "system" -> Turn("system", Str(<<"s", ToString(i)>>))
      [] OTHER -> Turn("user", [type |-> "int", str |-> <<ToString(i)>>])

HistoryOf(n, p1, k1, p2, k2) ==
    [i \in 1..n |-> IF i = p1 THEN EntryOfKind(k1, i)
                    ELSE IF i = p2 THEN EntryOfKind(k2, i)
                    ELSE WellFormedTurn(i)]

HistoryInputs ==
    { HistoryOf(n, p1, k1, p2, k2) :
          n \in 0..MaxHist, p1 \in 0..MaxHist, k1 \in EntryKinds,
          p2 \in 0..MaxHist, k2 \in EntryKinds }
    \cup { HistoryOf(n, 0, "system", 0, "system") : n \in 0..MaxLongHist }

AllOk == [primary_ok |-> TRUE, fallback_ok |-> TRUE, encode_ok |-> TRUE, db_ok |-> TRUE]

\* The table of a session that imported f1, beside another user's f2.
ChatTable ==
    << Row("u1", "f1", NameOf("f1"), <<"a">>, JsonText(<<1, 1, 0>>)),
       Row("u2", "f2", NameOf("f2"), <<"a">>, JsonText(<<1, 1, 0>>)) >>

TopMatchInputs ==
    { <<>>, semantic_search(<<"a">>, ChatTopK, "u1", ChatTable, PrimaryModel, AllOk).results }

InitContext ==
    /\ pdf_documents = <<>>
    /\ embed_model = NoModel
    /\ conversation_history \in HistoryInputs
    /\ call = [op |-> "init"]
    /\ last_upsert = [f \in DriveFileIds |-> NoUpsert]
    /\ batch = Idle
    /\ import_complete = FALSE
    /\ txn = NoTxn
    /\ SignedIn("chat", NoCache)

AnswerQuery ==
    \E top_matches \in TopMatchInputs, api \in ApiOutcomes, text \in Answers :
      \E r \in {answer_query_with_groq(conversation_history, top_matches, api, text)} :
        /\ call' = [op |-> "answer_query_with_groq", top_matches |-> top_matches,
                    api |-> api, messages |-> r.messages, answer |-> r.answer,
                    sources |-> r.sources, raised |-> r.raised]
        /\ UNCHANGED <<session, txn, pdf_documents, embed_model, conversation_history,
                       last_upsert, batch, import_complete>>

NextContext == AnswerQuery
SpecContext == InitContext /\ [][NextContext]_vars

----------------------------------------------------------------------------
(* chat_page: one submission, and Clear Conversation *)

MaxTurns == 6               \* submissions are taken while the history is shorter
ChatQueries == { <<"a">>, <<"z">> }

\* Mutant: the turns are inserted at the front of the history (insert(0, ...)).
chat_page_prepending(history, user_query, rows, cur, env, api, text) ==
    LET with_user == <<Turn("user", Str(user_query))>> \o history
        s == semantic_search(user_query, ChatTopK, SessionUser, rows, cur, env)
        a == answer_query_with_groq(with_user, s.results, api, text)
    IN  IF s.raised
        THEN [conversation_history |-> with_user, embed_model |-> s.embed_model,
              pdf_documents |-> s.pdf_documents, raised |-> TRUE,
              generator |-> "not called", top_matches |-> <<>>, messages |-> <<>>,
              answer |-> <<>>, sources |-> <<>>]
        ELSE [conversation_history |->
                  <<AssistantTurn(Str(a.answer), a.sources)>> \o with_user,
              embed_model |-> s.embed_model,
              pdf_documents |-> s.pdf_documents, raised |-> FALSE,
              generator |-> IF a.error_shown THEN "failed" ELSE "answered",
              top_matches |-> s.results, messages |-> a.messages,
              answer |-> a.answer, sources |-> a.sources]

\* Lines 549-570 with the answer a of the generator to the matches of s.
record_answer(with_user, s, a) ==
    [conversation_history |->
         Append(with_user, AssistantTurn(Str(a.answer), a.sources)),
     embed_model |-> s.embed_model,
     pdf_documents |-> s.pdf_documents, raised |-> FALSE,
     generator |-> IF a.error_shown THEN "failed" ELSE "answered",
     top_matches |-> s.results, messages |-> a.messages,
     answer |-> a.answer, sources |-> a.sources]

\* Lines 547-570 with the outcome s of semantic_search.
answer_turn(with_user, s, api, text) ==
    IF s.raised
    THEN [conversation_history |-> with_user, embed_model |-> s.embed_model,
          pdf_documents |-> s.pdf_documents, raised |-> TRUE,
          generator |-> "not called", top_matches |-> <<>>, messages |-> <<>>,
          answer |-> <<>>, sources |-> <<>>]
    ELSE record_answer(with_user, s,
                       answer_query_with_groq(with_user, s.results, api, text))

\* Lines 532-570: the user turn, the search, the answer, the assistant turn. An
\* exception of semantic_search leaves the handler after the first append.
chat_page(history, user_query, rows, cur, env, api, text) ==
    answer_turn(Append(history, Turn("user", Str(user_query))),
                semantic_search(user_query, ChatTopK, SessionUser, rows, cur, env),
                api, text)

InitChat ==
    /\ pdf_documents = ChatTable
    /\ embed_model = NoModel
    /\ conversation_history = <<>>
    /\ call = [op |-> "init"]
    /\ last_upsert = [f \in DriveFileIds |->
                         IF \E i \in 1..Len(ChatTable) : ChatTable[i].file_id = f
                         THEN LET row == ChatTable[CHOOSE i \in 1..Len(ChatTable) :
                                                      ChatTable[i].file_id = f]
                              IN  [upserted |-> TRUE, user_id |-> row.user_id,
                                   text_content |-> row.text_content,
                                   embedding |-> row.embedding]
                         ELSE NoUpsert]
    /\ batch = Idle
    /\ import_complete = FALSE
    /\ txn = NoTxn
    /\ SignedIn("chat", NoCache)

ChatSubmitUpTo(limit) ==
    /\ current_page = "chat"
    /\ \E i \in 1..Len(pdf_documents) : pdf_documents[i].user_id = SessionUser
    /\ Len(conversation_history) < limit
    /\ \E user_query \in ChatQueries, env \in Envs, api \in ApiOutcomes, text \in Answers :
         \E r \in {chat_page(conversation_history, user_query, pdf_documents,
                             embed_model, env, api, text)} :
            /\ conversation_history' = r.conversation_history
            /\ embed_model' = r.embed_model
            /\ pdf_documents' = r.pdf_documents
            /\ call' = [op |-> "chat_page", user_query |-> user_query,
                        raised |-> r.raised, generator |-> r.generator,
                        top_matches |-> r.top_matches, messages |-> r.messages,
                        answer |-> r.answer, sources |-> r.sources]
            /\ UNCHANGED <<session, txn, last_upsert, batch, import_complete>>

ChatSubmit == ChatSubmitUpTo(MaxTurns)

\* Lines 573-576.
ClearConversation ==
    /\ current_page = "chat"
    /\ \E i \in 1..Len(pdf_documents) : pdf_documents[i].user_id = SessionUser
    /\ conversation_history # <<>>
    /\ conversation_history' = <<>>
    /\ call' = [op |-> "clear_conversation"]
    /\ UNCHANGED <<session, txn, pdf_documents, embed_model, last_upsert, batch, import_complete>>

\* Mutant: only the credentials are removed.
sign_out_credentials_only(creds, flow) ==
    [google_credentials |-> Absent, auth_flow |-> flow]

\* GoogleDriveAuth.sign_out: the keys google_credentials, oauth_flow, auth_step
\* and auth_url are deleted.
sign_out(creds, flow) ==
    [google_credentials |-> Absent, auth_flow |-> NoFlow]

\* Lines 618-627, the button Sign Out of the sidebar, shown on every page while
\* is_authenticated() holds. The keys current_page, drive_pdfs_cache and
\* conversation_history are deleted; current_page is set to 'landing', and the
\* initialisation of lines 55-79 gives the other two their defaults (None, [])
\* on the rerun, before anything reads them. before records what the session
\* held when the button was pressed.
SignOut ==
    /\ batch.pc # "running"
    /\ \E refresh_ok \in BOOLEAN :
          is_authenticated(google_credentials, refresh_ok).result
    /\ \E o \in {sign_out(google_credentials, auth_flow)} :
          /\ google_credentials' = o.google_credentials
          /\ auth_flow' = o.auth_flow
    /\ current_page' = "landing"
    /\ drive_pdfs_cache' = NoCache
    /\ conversation_history' = <<>>
    /\ call' = [op |-> "sign_out",
                before |-> [turns |-> Len(conversation_history),
                            cached |-> drive_pdfs_cache.cached,
                            auth_flow |-> auth_flow,
                            current_page |-> current_page]]
    /\ UNCHANGED <<txn, pdf_documents, embed_model, last_upsert, batch, import_complete>>

NextChat == ChatSubmit \/ ClearConversation \/ SignOut
SpecChat == InitChat /\ [][NextChat]_vars

----------------------------------------------------------------------------
(* A chat turn on top of a long history, malformed entries included *)

TurnHistories ==
    { HistoryOf(n, p1, k1, 0, "system") :
          n \in (MaxHist - 3)..MaxHist, p1 \in 0..MaxHist, k1 \in EntryKinds }

InitTurn ==
    /\ pdf_documents = ChatTable
    /\ embed_model = NoModel
    /\ conversation_history \in TurnHistories
    /\ call = [op |-> "init"]
    /\ last_upsert = [f \in DriveFileIds |->
                         IF \E i \in 1..Len(ChatTable) : ChatTable[i].file_id = f
                         THEN LET row == ChatTable[CHOOSE i \in 1..Len(ChatTable) :
                                                      ChatTable[i].file_id = f]
                              IN  [upserted |-> TRUE, user_id |-> row.user_id,
                                   text_content |-> row.text_content,
                                   embedding |-> row.embedding]
                         ELSE NoUpsert]
    /\ batch = Idle
    /\ import_complete = FALSE
    /\ txn = NoTxn
    /\ SignedIn("chat", NoCache)

NextTurn == ChatSubmitUpTo(MaxHist + 1)
SpecTurn == InitTurn /\ [][NextTurn]_vars

----------------------------------------------------------------------------
(* main: the pages, the sidebar and the consent flow, one script run per step *)

MaxSessionTurns == 2        \* the session chats while its history is shorter

Pages == {"landing", "import", "chat"}

\* The account's access token runs out (credentials.valid turns false).
TokenExpires ==
    /\ google_credentials = "valid"
    /\ google_credentials' = "expired"
    /\ call' = [op |-> "token_expires"]
    /\ UNCHANGED <<txn, pdf_documents, embed_model, conversation_history, last_upsert,
                   batch, import_complete, auth_flow, current_page, drive_pdfs_cache>>

\* landing_page: show_auth_interface without a button pressed; an
\* unauthenticated session gets auth_step = 1 when the key is absent.
LandingPage ==
    /\ current_page = "landing"
    /\ \E refresh_ok \in BOOLEAN :
         \E a \in {is_authenticated(google_credentials, refresh_ok)} :
            /\ google_credentials' = a.google_credentials
            /\ auth_flow' = IF ~a.result /\ auth_flow.auth_step = 0
                            THEN [auth_flow EXCEPT !.auth_step = 1]
                            ELSE auth_flow
            /\ call' = [op |-> "landing_page", authenticated |-> a.result]
    /\ UNCHANGED <<txn, pdf_documents, embed_model, conversation_history, last_upsert,
                   batch, import_complete, current_page, drive_pdfs_cache>>

\* The button Open Google Authorization (step 1): get_auth_url stores the flow
\* and returns the URL, or returns None (url_ok false).
OpenAuthorization ==
    /\ current_page = "landing"
    /\ auth_flow.auth_step = 1
    /\ \E refresh_ok \in BOOLEAN :
          ~is_authenticated(google_credentials, refresh_ok).result
    /\ \E url_ok \in BOOLEAN :
          /\ auth_flow' = IF url_ok
                          THEN [oauth_flow |-> TRUE, auth_step |-> 2, auth_url |-> TRUE]
                          ELSE auth_flow
          /\ call' = [op |-> "open_authorization", url |-> url_ok]
    /\ UNCHANGED <<txn, pdf_documents, embed_model, conversation_history, last_upsert,
                   batch, import_complete, google_credentials, current_page,
                   drive_pdfs_cache>>

ExchangeOutcomes == {"ok", "failed", "scope mismatch"}

\* The button Complete Setup (step 2) with a code: exchange_code stores the
\* credentials and deletes oauth_flow, then auth_step = 1 and auth_url is
\* deleted; a scope mismatch runs reset_auth_flow; any other failure leaves
\* the session as it is.
CompleteSetup ==
    /\ current_page = "landing"
    /\ auth_flow.auth_step = 2 /\ auth_flow.auth_url
    /\ \E refresh_ok \in BOOLEAN :
          ~is_authenticated(google_credentials, refresh_ok).result
    /\ \E outcome \in ExchangeOutcomes :
          /\ google_credentials' = IF outcome = "ok" THEN "valid" ELSE google_credentials
          /\ auth_flow' = IF outcome = "failed" THEN auth_flow
                          ELSE [oauth_flow |-> FALSE, auth_step |-> 1, auth_url |-> FALSE]
          /\ call' = [op |-> "complete_setup", outcome |-> outcome]
    /\ UNCHANGED <<txn, pdf_documents, embed_model, conversation_history, last_upsert,
                   batch, import_complete, current_page, drive_pdfs_cache>>

\* The button Start Over (step 2): auth_step = 1, auth_url deleted.
StartOver ==
    /\ current_page = "landing"
    /\ auth_flow.auth_step = 2 /\ auth_flow.auth_url
    /\ \E refresh_ok \in BOOLEAN :
          ~is_authenticated(google_credentials, refresh_ok).result
    /\ auth_flow' = [auth_flow EXCEPT !.auth_step = 1, !.auth_url = FALSE]
    /\ call' = [op |-> "start_over"]
    /\ UNCHANGED <<txn, pdf_documents, embed_model, conversation_history, last_upsert,
                   batch, import_complete, google_credentials, current_page,
                   drive_pdfs_cache>>

\* The button Sign Out of the landing page: self.sign_out() and a rerun.
LandingSignOut ==
    /\ current_page = "landing"
    /\ \E refresh_ok \in BOOLEAN :
          is_authenticated(google_credentials, refresh_ok).result
    /\ \E o \in {sign_out(google_credentials, auth_flow)} :
          /\ google_credentials' = o.google_credentials
          /\ auth_flow' = o.auth_flow
    /\ call' = [op |-> "landing_sign_out"]
    /\ UNCHANGED <<txn, pdf_documents, embed_model, conversation_history, last_upsert,
                   batch, import_complete, current_page, drive_pdfs_cache>>

\* The buttons that change the page: Home (sidebar, always shown), Import PDFs
\* and AI Chat (sidebar, authenticated), Continue to Import (landing page,
\* authenticated), Go to Landing (import page, not authenticated) and Go to
\* Import (chat page without a document of the user).
Navigate ==
    /\ batch.pc # "running"
    /\ \E refresh_ok \in BOOLEAN, page \in Pages :
         \E a \in {is_authenticated(google_credentials, refresh_ok)} :
            /\ \/ page = "landing"
               \/ page \in {"import", "chat"} /\ a.result
               \/ /\ page = "import" /\ current_page = "chat"
                  /\ ~\E i \in 1..Len(pdf_documents) :
                         pdf_documents[i].user_id = SessionUser
            /\ google_credentials' = a.google_credentials
            /\ current_page' = page
            /\ call' = [op |-> "navigate", page |-> page]
    /\ UNCHANGED <<txn, pdf_documents, embed_model, conversation_history, last_upsert,
                   batch, import_complete, auth_flow, drive_pdfs_cache>>

\* Mutant: the listing is fetched on every run of the page.
load_cache_always(cache, refreshed, s, listing) ==
    IF s.service THEN [listed |-> TRUE, drive_pdfs_cache |-> Cached(list_all_pdfs(listing))]
    ELSE [listed |-> FALSE, drive_pdfs_cache |-> NoCache]

\* Lines 312-335 with s the outcome of init_drive_service(): Refresh from Drive
\* sets the cache to None; a cache that is None is filled by list_all_pdfs when
\* there is a service, and stays None otherwise.
load_cache(cache, refreshed, s, listing) ==
    LET cleared == IF refreshed THEN NoCache ELSE cache
    IN  IF cleared = NoCache
        THEN IF s.service
             THEN [listed |-> TRUE, drive_pdfs_cache |-> Cached(list_all_pdfs(listing))]
             ELSE [listed |-> FALSE, drive_pdfs_cache |-> NoCache]
        ELSE [listed |-> FALSE, drive_pdfs_cache |-> cleared]

\* import_page up to the selection (lines 273-339): nothing happens when
\* is_authenticated() is false or import_complete is set.
import_page(creds, cache, complete, refreshed, refresh_ok, build_ok, listing) ==
    LET a == is_authenticated(creds, refresh_ok)
        s == get_drive_service(a.google_credentials, refresh_ok, build_ok)
        l == load_cache(cache, refreshed, s, listing)
    IN  IF ~a.result \/ complete
        THEN [authenticated |-> a.result, listed |-> FALSE, drive_pdfs_cache |-> cache,
              google_credentials |-> a.google_credentials]
        ELSE [authenticated |-> TRUE, listed |-> l.listed,
              drive_pdfs_cache |-> l.drive_pdfs_cache,
              google_credentials |-> s.google_credentials]

\* A run of the import page without an import: on arrival, on any widget of
\* the page, or with the button Refresh from Drive (refreshed; the button is
\* drawn only when the session is authenticated and import_complete is not set).
ImportPage ==
    /\ current_page = "import"
    /\ batch.pc # "running"
    /\ \E refreshed, refresh_ok, build_ok \in BOOLEAN, listing \in ListOutcomes :
         \E r \in {import_page(google_credentials, drive_pdfs_cache, import_complete,
                               refreshed, refresh_ok, build_ok, listing)} :
            /\ refreshed => r.authenticated /\ ~import_complete
            /\ google_credentials' = r.google_credentials
            /\ drive_pdfs_cache' = r.drive_pdfs_cache
            /\ call' = [op |-> "import_page", authenticated |-> r.authenticated,
                        refreshed |-> refreshed, listed |-> r.listed]
    /\ UNCHANGED <<txn, pdf_documents, embed_model, conversation_history, last_upsert,
                   batch, import_complete, auth_flow, current_page>>

\* chat_page as main runs it.
ChatPage == ChatSubmitUpTo(MaxSessionTurns)

\* The database file of earlier sessions, and a session that starts.
InitSession ==
    /\ pdf_documents = ChatTable
    /\ embed_model = NoModel
    /\ conversation_history = <<>>
    /\ call = [op |-> "init"]
    /\ last_upsert = [f \in DriveFileIds |->
                         IF \E i \in 1..Len(ChatTable) : ChatTable[i].file_id = f
                         THEN LET row == ChatTable[CHOOSE i \in 1..Len(ChatTable) :
                                                      ChatTable[i].file_id = f]
                              IN  [upserted |-> TRUE, user_id |-> row.user_id,
                                   text_content |-> row.text_content,
                                   embedding |-> row.embedding]
                         ELSE NoUpsert]
    /\ batch = Idle
    /\ import_complete = FALSE
    /\ txn = NoTxn
    /\ google_credentials = Absent
    /\ auth_flow = NoFlow
    /\ current_page = "landing"
    /\ drive_pdfs_cache = NoCache

NextSession ==
    \/ TokenExpires
    \/ LandingPage
    \/ OpenAuthorization
    \/ CompleteSetup
    \/ StartOver
    \/ LandingSignOut
    \/ Navigate
    \/ ImportPage
    \/ ChatPage
    \/ SignOut
SpecSession == InitSession /\ [][NextSession]_vars

----------------------------------------------------------------------------
(* import_pdfs: the batch import, one document per step *)

MaxBatch == 3               \* a batch selects up to MaxBatch documents

\* The text download_pdf_content extracts from a file when nothing fails.
TextOf(f) ==
    IF f = "f1" THEN <<"a">> ELSE IF f = "f2" THEN <<"a", "b">> ELSE <<"b">>

\* compute_embedding: truncate, load the model, encode, json.dumps.
\* Mutant: the whole text is embedded.
compute_embedding_no_cap(text, cur, env) ==
    LET g == get_embed_model(cur, env.primary_ok, env.fallback_ok)
    IN  IF g.raised \/ ~env.encode_ok
        THEN [raised |-> TRUE, embedding |-> SqlNull, embed_model |-> g.embed_model,
              loads |-> g.loads]
        ELSE [raised |-> FALSE,
              embedding |-> JsonText(encode(g.embed_model, text)),
              embed_model |-> g.embed_model, loads |-> g.loads]

compute_embedding(text, cur, env) ==
    LET g == get_embed_model(cur, env.primary_ok, env.fallback_ok)
    IN  IF g.raised \/ ~env.encode_ok
        THEN [raised |-> TRUE, embedding |-> SqlNull, embed_model |-> g.embed_model,
              loads |-> g.loads]
        ELSE [raised |-> FALSE,
              embedding |-> JsonText(encode(g.embed_model,
                                IF Len(text) > EmbedCap THEN PyPrefix(text, EmbedCap)
                                ELSE text)),
              embed_model |-> g.embed_model, loads |-> g.loads]

\* One iteration's collaborators: the token refresh and build() of
\* init_drive_service, the download and text extraction (a PDF without text
\* yields "", and so does any failure, which download_pdf_content reports
\* itself), the model loads, model.encode and the database.
ImportEnvs ==
    { [refresh_ok |-> TRUE, build_ok |-> TRUE, download |-> "ok",
       primary_ok |-> e.primary_ok, fallback_ok |-> e.fallback_ok,
       encode_ok |-> e.encode_ok, db_ok |-> e.db_ok] : e \in Envs }
    \cup { [refresh_ok |-> TRUE, build_ok |-> TRUE, download |-> d,
            primary_ok |-> TRUE, fallback_ok |-> TRUE,
            encode_ok |-> TRUE, db_ok |-> TRUE] : d \in {"no text", "failed"} }
    \cup { [refresh_ok |-> ok[1], build_ok |-> ok[2], download |-> "ok",
            primary_ok |-> TRUE, fallback_ok |-> TRUE,
            encode_ok |-> TRUE, db_ok |-> TRUE] :
            ok \in {<<FALSE, TRUE>>, <<TRUE, FALSE>>} }

\* Mutant: the download does not need the service.
download_pdf_content_any_service(service, pdf, env) ==
    IF env.download = "ok" THEN TextOf(pdf) ELSE <<>>

\* download_pdf_content: the stripped text, "" on any exception; without a
\* service (None) service.files() raises, which is such an exception.
download_pdf_content(service, pdf, env) ==
    IF service /\ env.download = "ok" THEN TextOf(pdf) ELSE <<>>

\* Lines 414-430 with the outcome e of compute_embedding.
save_embedded(pdf, text_content, rows, e, env) ==
    IF e.raised \/ ~env.db_ok
    THEN [outcome |-> "error", reported |-> "error", computed |-> TRUE,
          pdf_documents |-> rows, embed_model |-> e.embed_model,
          text_content |-> text_content, embedding |-> SqlNull, loads |-> e.loads]
    ELSE [outcome |-> "imported", reported |-> "success", computed |-> TRUE,
          pdf_documents |-> save_pdf_to_db(rows, SessionUser, pdf, NameOf(pdf),
                                           text_content, e.embedding),
          embed_model |-> e.embed_model,
          text_content |-> text_content, embedding |-> e.embedding,
          loads |-> e.loads]

\* Mutant: the test of text_content is missing, every text is indexed.
index_document_any_text(pdf, text_content, rows, cur, env) ==
    save_embedded(pdf, text_content, rows, compute_embedding(text_content, cur, env), env)

\* Lines 411-438 for the text extracted from the document pdf: reported is the
\* message of import_pdfs (st.success, st.warning, st.error), computed whether
\* compute_embedding was called.
index_document(pdf, text_content, rows, cur, env) ==
    IF text_content = <<>>
    THEN [outcome |-> "no text", reported |-> "warning", computed |-> FALSE,
          pdf_documents |-> rows, embed_model |-> cur,
          text_content |-> text_content, embedding |-> SqlNull, loads |-> <<>>]
    ELSE save_embedded(pdf, text_content, rows,
                       compute_embedding(text_content, cur, env), env)

\* The try block of one iteration (lines 405-433) for the document pdf.
import_one(service, pdf, rows, cur, env) ==
    index_document(pdf, download_pdf_content(service, pdf, env), rows, cur, env)

\* Mutant: no except clause, an exception ends the loop.
next_index_abort(outcome, i, total) == IF outcome = "error" THEN total ELSE i + 1

\* for i, pdf in enumerate(selected_pdfs): ... except Exception: continue
next_index(outcome, i, total) == i + 1

\* The documents ticked on the import page, in the order of the listing.
Selections ==
    { sel \in UNION { [1..n -> DriveFileIds] : n \in 1..Min(MaxBatch, Cardinality(DriveFileIds)) } :
          \A j, k \in 1..Len(sel) : j # k => sel[j] # sel[k] }

\* The button Import Selected PDFs: the run of import_page passes the tests
\* of is_authenticated() and import_complete, finds the cached listing the
\* documents were ticked in, and calls import_pdfs.
ImportStartOf(selections) ==
    /\ current_page = "import"
    /\ batch.pc # "running"
    /\ drive_pdfs_cache.cached
    /\ \E refresh_ok \in BOOLEAN :
         \E p \in {import_page(google_credentials, drive_pdfs_cache, import_complete,
                               FALSE, refresh_ok, TRUE, "ok")} :
            /\ p.authenticated /\ ~import_complete
            /\ google_credentials' = p.google_credentials
    /\ \E sel \in selections :
          /\ \A j \in 1..Len(sel) :
                \E k \in 1..Len(drive_pdfs_cache.pdfs) : drive_pdfs_cache.pdfs[k] = sel[j]
          /\ batch' = [pc |-> "running", selected |-> sel, i |-> 0,
                       successful_imports |-> 0, attempted |-> <<>>]
    /\ call' = [op |-> "import_pdfs"]
    /\ UNCHANGED <<txn, pdf_documents, embed_model, conversation_history, last_upsert,
                   import_complete, auth_flow, current_page, drive_pdfs_cache>>

ImportStart == ImportStartOf(Selections)

ImportDoc ==
    /\ batch.pc = "running"
    /\ batch.i < Len(batch.selected)
    /\ \E env \in ImportEnvs :
        LET pdf == batch.selected[batch.i + 1] IN
        \E s \in {get_drive_service(google_credentials, env.refresh_ok, env.build_ok)} :
        \E r \in {import_one(s.service, pdf, pdf_documents, embed_model, env)} :
            /\ google_credentials' = s.google_credentials
            /\ pdf_documents' = r.pdf_documents
            /\ embed_model' = r.embed_model
            /\ last_upsert' =
                  IF r.outcome = "imported"
                  THEN [last_upsert EXCEPT ![pdf] =
                           [upserted |-> TRUE, user_id |-> SessionUser,
                            text_content |-> r.text_content, embedding |-> r.embedding]]
                  ELSE last_upsert
            /\ batch' = [batch EXCEPT
                  !.i = next_index(r.outcome, batch.i, Len(batch.selected)),
                  !.successful_imports =
                      IF r.outcome = "imported" THEN @ + 1 ELSE @,
                  !.attempted = Append(@, [file_id |-> pdf, outcome |-> r.outcome])]
            /\ call' = [op |-> "import_document", file_id |-> pdf,
                        service |-> s.service,
                        download |-> IF s.service THEN env.download ELSE "failed",
                        outcome |-> r.outcome,
                        reported |-> r.reported, computed |-> r.computed,
                        raised |-> FALSE, loads |-> r.loads]
            /\ UNCHANGED <<txn, conversation_history, import_complete, auth_flow,
                           current_page, drive_pdfs_cache>>

\* Mutant: the flag is set whatever the count.
import_complete_after_always(successful_imports, complete) == TRUE

\* Lines 443-448: if successful_imports > 0: import_complete = True.
import_complete_after(successful_imports, complete) ==
    IF successful_imports > 0 THEN TRUE ELSE complete

\* Lines 439-448, after the loop: reported is the count of the message
\* "Successfully imported {successful_imports} out of {total_pdfs} PDFs".
ImportFinish ==
    /\ batch.pc = "running"
    /\ batch.i >= Len(batch.selected)
    /\ batch' = [batch EXCEPT !.pc = "finished"]
    /\ import_complete' = import_complete_after(batch.successful_imports, import_complete)
    /\ call' = [op |-> "import_pdfs_end", reported |-> batch.successful_imports,
                total_pdfs |-> Len(batch.selected)]
    /\ UNCHANGED <<session, txn, pdf_documents, embed_model, conversation_history, last_upsert>>

\* The buttons of the import page of a session whose import_complete is set
\* (lines 284-310): Import More PDFs resets the flag, Continue to Chat resets
\* it and goes to the chat page.
ImportCompleted(page) ==
    /\ current_page = "import"
    /\ batch.pc # "running"
    /\ import_complete
    /\ \E refresh_ok \in BOOLEAN :
         \E a \in {is_authenticated(google_credentials, refresh_ok)} :
            /\ a.result
            /\ google_credentials' = a.google_credentials
    /\ import_complete' = FALSE
    /\ current_page' = page
    /\ UNCHANGED <<txn, pdf_documents, embed_model, conversation_history, last_upsert,
                   batch, auth_flow, drive_pdfs_cache>>

\* Lines 306-308, the button Import More PDFs.
ImportMore == ImportCompleted("import") /\ call' = [op |-> "import_more"]

\* Lines 300-303, the button Continue to Chat.
ContinueToChat == ImportCompleted("chat") /\ call' = [op |-> "continue_to_chat"]

\* An empty database, and a session that signed in and went to the import page.
InitImportPage(cache) ==
    /\ pdf_documents = <<>>
    /\ embed_model = NoModel
    /\ conversation_history = <<>>
    /\ call = [op |-> "init"]
    /\ last_upsert = [f \in DriveFileIds |-> NoUpsert]
    /\ batch = Idle
    /\ import_complete = FALSE
    /\ txn = NoTxn
    /\ SignedIn("import", cache)

\* The import page has listed the Drive.
InitImport == InitImportPage(Cached(DriveListing))

NextImport == ImportStart \/ ImportDoc \/ ImportFinish \/ ImportMore
SpecImport == InitImport /\ [][NextImport]_vars

----------------------------------------------------------------------------
(* The import page in a session whose token expires, that leaves the page, *)
(* comes back and signs out                                                *)

\* A batch of three documents, and a batch of one.
GateSelections == { <<"f1", "f2", "f3">>, <<"f2">> }

NextGate ==
    \/ ImportPage
    \/ ImportStartOf(GateSelections)
    \/ ImportDoc
    \/ ImportFinish
    \/ ImportMore
    \/ ContinueToChat
    \/ Navigate
    \/ TokenExpires
    \/ SignOut
\* The import page has not run yet.
InitGate == InitImportPage(NoCache)

SpecGate == InitGate /\ [][NextGate]_vars

----------------------------------------------------------------------------
(* The embedder: documents and queries around the cap of compute_embedding *)

MaxExtra == 1               \* texts are up to EmbedCap + MaxExtra characters long

\* "a", then "z" up to the cap, then "b": texts that agree on their first
\* EmbedCap characters and differ after them.
LongText(n) == <<"a">> \o [i \in 1..(n - 1) |-> IF i >= EmbedCap THEN "b" ELSE "z"]

EmbedTexts == { LongText(n) : n \in EmbedCap..(EmbedCap + MaxExtra) }

\* One document goes through lines 411-438 of import_pdfs.
IndexDocument ==
    \E pdf \in FileIds, text_content \in EmbedTexts, env \in Envs :
      \E r \in {index_document(pdf, text_content, pdf_documents, embed_model,
                                [download |-> "ok", primary_ok |-> env.primary_ok,
                                 fallback_ok |-> env.fallback_ok,
                                 encode_ok |-> env.encode_ok, db_ok |-> env.db_ok])} :
        /\ pdf_documents' = r.pdf_documents
        /\ embed_model' = r.embed_model
        /\ last_upsert' =
              IF r.outcome = "imported"
              THEN [last_upsert EXCEPT ![pdf] =
                       [upserted |-> TRUE, user_id |-> SessionUser,
                        text_content |-> r.text_content, embedding |-> r.embedding]]
              ELSE last_upsert
        /\ call' = [op |-> "index_document", file_id |-> pdf, text |-> text_content,
                    outcome |-> r.outcome, embedding |-> r.embedding,
                    raised |-> r.outcome = "error", loads |-> r.loads]
        /\ UNCHANGED <<session, txn, conversation_history, batch, import_complete>>

NextEmbed == IndexDocument \/ SemanticSearchOf(EmbedTexts, {ChatTopK}, {SessionUser})
SpecEmbed == Init /\ [][NextEmbed]_vars

----------------------------------------------------------------------------
(* Properties of the store (SpecStore) *)

RowsOf(file_id) ==
    {i \in 1..Len(pdf_documents) : pdf_documents[i].file_id = file_id}
StoredRow(file_id) == pdf_documents[CHOOSE i \in RowsOf(file_id) : TRUE]

\* C1: after any sequence of save_pdf_to_db the table holds exactly one row for
\* every file_id ever upserted, carrying the user_id, text_content and embedding
\* of the most recent upsert of that id, and no row for any other id.
C1_OneRowPerUpsertedId ==
    \A f \in DriveFileIds :
        IF last_upsert[f].upserted
        THEN /\ Cardinality(RowsOf(f)) = 1
             /\ \A i \in RowsOf(f) :
                    /\ pdf_documents[i].user_id = last_upsert[f].user_id
                    /\ pdf_documents[i].text_content = last_upsert[f].text_content
                    /\ pdf_documents[i].embedding = last_upsert[f].embedding
        ELSE RowsOf(f) = {}

\* An upsert replaced the row of f1 while f2 is stored too, and changed all three
\* fields to values the other row does not have.
C1_Witness ==
    /\ call.op = "save_pdf_to_db" /\ call.file_id = "f1" /\ call.replaced
    /\ Len(pdf_documents) = 2
    /\ pdf_documents[1].file_id = "f2"
    /\ pdf_documents[2].user_id = "u2" /\ pdf_documents[1].user_id = "u1"
    /\ pdf_documents[2].text_content = <<"b">> /\ pdf_documents[1].text_content = <<"a">>
    /\ pdf_documents[2].embedding = JsonText(<<1, 0, 7>>)
    /\ pdf_documents[1].embedding = SqlNull

\* C13: with upserts issued side by side, every id that an upsert committed has
\* exactly one row, and the row is, field by field, the document of the upsert
\* that committed last; an id no upsert committed has no row, whatever is in flight.
C13_ConcurrentUpsertsAtomic ==
    /\ Len(pdf_documents) = Cardinality({f \in FileIds : last_upsert[f].upserted})
    /\ \A f \in FileIds :
          last_upsert[f].upserted =>
              /\ RowsOf(f) # {}
              /\ StoredRow(f) = Row(last_upsert[f].user_id, f, NameOf(f),
                                    last_upsert[f].text_content,
                                    last_upsert[f].embedding)

\* An upsert of f1 committed after another upsert of f1, issued while it was in
\* flight, had committed a document that differs in every field.
C13_Witness ==
    /\ call.op = "save_pdf_to_db" /\ ~call.raised /\ call.file_id = "f1"
    /\ call.overlapped /\ call.replaced
    /\ StoredRow("f1").user_id = "u2"
    /\ \E p \in Procs :
          /\ txn.w[p].pc = "connected" /\ txn.w[p].file_id = "f1"
          /\ txn.w[p].user_id = "u1" /\ txn.w[p].embedding = SqlNull

----------------------------------------------------------------------------
(* Properties of the retriever (SpecSearch, SpecRank, SpecOwner) *)

Searched == call.op = "semantic_search"
Given(user_id) == user_id # NoUser /\ user_id # ""

C3_EmptyQueryEmptyResult ==
    (Searched /\ call.query = <<>>) => (~call.raised /\ call.results = <<>>)

\* The empty query was searched over a table whose two rows would both match.
C3_Witness ==
    /\ Searched /\ call.query = <<>> /\ call.top_k = MaxK /\ call.user_id = NoUser
    /\ embed_model = NoModel
    /\ Len(pdf_documents) = 2
    /\ \A i \in 1..2 : pdf_documents[i].embedding = JsonText(<<1, 1, 0>>)

\* C4: every returned entry is a stored row whose embedding is present (and
\* parses), and, when a user_id is given, whose user_id is the one searched for.
C4_OnlyEmbeddedInScope ==
    (Searched /\ ~call.raised) =>
        \A i \in 1..Len(call.results) :
            LET f == call.results[i].file_id
            IN  /\ RowsOf(f) # {}
                /\ StoredRow(f).embedding.sql # "NULL"
                /\ StoredRow(f).embedding.sql = "json"
                /\ Given(call.user_id) => StoredRow(f).user_id = call.user_id

\* A search scoped to u1 returned one document although another user's row
\* passes the floor too.
C4_Witness ==
    /\ Searched /\ ~call.raised /\ call.user_id = "u1" /\ call.top_k = MaxK
    /\ Len(call.results) = 1
    /\ \E i \in 1..Len(pdf_documents) :
          /\ pdf_documents[i].user_id = "u2"
          /\ pdf_documents[i].embedding = JsonText(<<2, 1, 7>>)
          /\ AboveFloor(cosine_sim(encode(embed_model, call.query),
                                   pdf_documents[i].embedding.list))

RowPos(file_id) == CHOOSE i \in RowsOf(file_id) : TRUE
SameScore(s, t) == ~ScoreGT(s, t) /\ ~ScoreGT(t, s)

\* C16: the returned list is in descending order of score, entries of equal
\* score in the order the table enumerates them; what [:top_k] cut off is the
\* tail of that order: no document left out scores higher than a returned one,
\* and none of equal score is enumerated before it.
C16_SortedDescStable ==
    (Searched /\ ~call.raised) =>
        /\ \A i, j \in 1..Len(call.results) :
              i < j =>
                  /\ ~ScoreGT(call.results[j].score, call.results[i].score)
                  /\ SameScore(call.results[i].score, call.results[j].score)
                        => RowPos(call.results[i].file_id) < RowPos(call.results[j].file_id)
        /\ \A i \in 1..Len(call.results), k \in 1..Len(call.scores) :
              (/\ AboveFloor(call.scores[k].score)
               /\ \A j \in 1..Len(call.results) :
                     call.results[j].file_id # call.scores[k].file_id)
              => /\ ~ScoreGT(call.scores[k].score, call.results[i].score)
                 /\ SameScore(call.scores[k].score, call.results[i].score)
                       => RowPos(call.results[i].file_id) < RowPos(call.scores[k].file_id)

\* Two documents were returned, the one the table enumerates last first.
C16_Witness ==
    /\ Searched /\ ~call.raised /\ Len(call.results) = 2
    /\ ScoreGT(call.results[1].score, call.results[2].score)
    /\ RowPos(call.results[1].file_id) > RowPos(call.results[2].file_id)

ZeroNorm(v) == \A i \in 1..Len(v) : v[i] = 0

\* C9: the cosine against a zero-norm vector (query or document) is 0, the call
\* does not raise and the document is not returned.
C9_ZeroNormScoresZero ==
    Searched =>
        \A i \in 1..Len(call.scores) :
            LET c == call.scores[i]
            IN  (ZeroNorm(c.query_emb) \/ ZeroNorm(c.pdf_emb)) =>
                    /\ ~call.raised
                    /\ ~c.score.nan /\ c.score.dot = 0
                    /\ \A j \in 1..Len(call.results) :
                          call.results[j].file_id # c.file_id

\* What the code does there: the cosine is NaN, no comparison with NaN is true,
\* so the call does not raise and the document is not returned.
C9_ZeroNormExcluded ==
    Searched =>
        \A i \in 1..Len(call.scores) :
            LET c == call.scores[i]
            IN  (ZeroNorm(c.query_emb) \/ ZeroNorm(c.pdf_emb)) =>
                    /\ ~call.raised
                    /\ c.score.nan
                    /\ \A j \in 1..Len(call.results) :
                          call.results[j].file_id # c.file_id

\* C10: a call of semantic_search leaves every row of the table as it was,
\* whether it returns entries, returns none or raises.
C10_SearchReadOnly ==
    [][call'.op = "semantic_search" => pdf_documents' = pdf_documents]_vars

\* A search raised over a table of two rows, one of which it could not score.
C10_Witness ==
    /\ Searched /\ call.raised
    /\ Len(pdf_documents) = 2
    /\ \E i \in 1..2 : pdf_documents[i].embedding.sql # "json"

CountOwned(rows, user_id) == Len(SelectSeq(rows, LAMBDA r : r.user_id = user_id))
ResultIds(results) == {results[i].file_id : i \in 1..Len(results)}

\* C21: no step makes the table shorter; an upsert of a file_id stored under the
\* user_id A with another user_id B keeps the number of rows, leaves one row for
\* the id, owned by B, and takes one row from A's count and adds one to B's; and
\* a search scoped to a user returns no document whose row another user owns, a
\* document moved away by the step before included.
C21_NeverFewerRowsOwnerMoves ==
    [][ /\ Len(pdf_documents') >= Len(pdf_documents)
        /\ call'.op = "save_pdf_to_db" =>
              LET f == call'.file_id
                  A == OwnerOf(pdf_documents, f)
                  B == last_upsert'[f].user_id
              IN  (A # NoUser /\ A # B) =>
                      /\ Len(pdf_documents') = Len(pdf_documents)
                      /\ OwnerOf(pdf_documents', f) = B
                      /\ Len(SelectSeq(pdf_documents', LAMBDA r : r.file_id = f)) = 1
                      /\ CountOwned(pdf_documents', A) = CountOwned(pdf_documents, A) - 1
                      /\ CountOwned(pdf_documents', B) = CountOwned(pdf_documents, B) + 1
        /\ (call'.op = "semantic_search" /\ ~call'.raised /\ Given(call'.user_id)) =>
              /\ \A f \in ResultIds(call'.results) :
                     OwnerOf(pdf_documents, f) = call'.user_id
              /\ (call.op = "save_pdf_to_db" /\ call.owner_before = call'.user_id
                     /\ OwnerOf(pdf_documents, call.file_id) # call'.user_id) =>
                     call.file_id \notin ResultIds(call'.results)
      ]_vars

\* An upsert moved f1 from u1 to u2 while u1 keeps f2: two rows as before, one
\* for each user, and the moved row carries an embedding that passes the floor
\* for the query "a".
C21_Witness ==
    /\ call.op = "save_pdf_to_db" /\ call.file_id = "f1" /\ call.owner_before = "u1"
    /\ Len(pdf_documents) = 2
    /\ OwnerOf(pdf_documents, "f1") = "u2" /\ OwnerOf(pdf_documents, "f2") = "u1"
    /\ CountOwned(pdf_documents, "u1") = 1 /\ CountOwned(pdf_documents, "u2") = 1
    /\ StoredRow("f1").embedding = JsonText(<<2, 1, 7>>)
    /\ StoredRow("f2").embedding = JsonText(<<1, 1, 0>>)

----------------------------------------------------------------------------
(* Properties of the context builder (SpecContext) and of the chat turn (SpecChat) *)

Answered == call.op = "answer_query_with_groq"

\* C5: the payload is one system message followed by the filtered history when it
\* has at most 10 turns and by its 10 most recent turns, in order, when it has
\* more: never more than 11 messages, whatever the length of the history.
C5_OneSystemPlusLastTen ==
    Answered =>
        LET m == call.messages
            cleaned == CleanHistory(conversation_history)
            kept == Len(m) - 1
        IN  /\ Len(m) >= 1 /\ Len(m) <= 11
            /\ m[1].role = "system"
            /\ \A j \in 2..Len(m) : m[j].role # "system"
            /\ kept = IF Len(cleaned) > 10 THEN 10 ELSE Len(cleaned)
            /\ \A j \in 1..kept : m[1 + j] = cleaned[Len(cleaned) - kept + j]

\* A history of 37 well-formed turns was sent as exactly 11 messages.
C5_Witness ==
    /\ Answered
    /\ Len(conversation_history) = 37
    /\ Len(CleanHistory(conversation_history)) = 37
    /\ Len(call.messages) = 11

\* C6: when the generator call fails, the chat turn does not raise; the answer
\* is the apology and the sources are empty, and the history is the history of
\* before, followed by the user's question and by an assistant turn holding the
\* apology with empty sources.
C6_FailedTurnRecorded ==
    [][(call'.op = "chat_page" /\ call'.generator = "failed") =>
          /\ ~call'.raised
          /\ call'.answer = Apology
          /\ call'.sources = <<>>
          /\ conversation_history' =
                conversation_history
                \o << Turn("user", Str(call'.user_query)),
                      AssistantTurn(Str(Apology), <<>>) >>]_vars

\* The generator failed on a turn whose search had found a document, after an
\* earlier turn that had been answered.
C6_Witness ==
    /\ call.op = "chat_page" /\ call.generator = "failed"
    /\ call.top_matches # <<>>
    /\ Len(conversation_history) = 4
    /\ conversation_history[2].sources # <<>>

\* C12: a chat submission appends the user's turn and, when an answer is
\* produced, the assistant's turn after it, and leaves every earlier turn as it
\* was; only Clear Conversation and Sign Out change the history otherwise, and
\* they empty it; no step of the chat writes to the table.
C12_HistoryAppendOnly ==
    [][/\ pdf_documents' = pdf_documents
       /\ \/ /\ call'.op \in {"clear_conversation", "sign_out"}
             /\ conversation_history' = <<>>
          \/ /\ call'.op = "chat_page" /\ call'.raised
             /\ conversation_history' =
                   Append(conversation_history, Turn("user", Str(call'.user_query)))
          \/ /\ call'.op = "chat_page" /\ ~call'.raised
             /\ conversation_history' =
                   conversation_history
                   \o << Turn("user", Str(call'.user_query)),
                         AssistantTurn(Str(call'.answer), call'.sources) >>]_vars

\* A second answered submission, with another question than the first.
C12_Witness ==
    /\ call.op = "chat_page" /\ ~call.raised
    /\ Len(conversation_history) = 4
    /\ conversation_history[1].content # conversation_history[3].content
    /\ conversation_history[4].role = "assistant"

\* C20: between submissions the history alternates user, assistant, starting
\* with a user turn: every submission ends with an assistant turn.
C20_AlternatingTurns ==
    /\ Len(conversation_history) % 2 = 0
    /\ \A i \in 1..Len(conversation_history) :
          conversation_history[i].role = IF i % 2 = 1 THEN "user" ELSE "assistant"

\* A history entry the payload keeps: a dict with role and content whose role
\* is user or assistant.
WellFormed(e) ==
    e.py = "dict" /\ {"role", "content"} \subseteq e.keys /\ e.role \in {"user", "assistant"}
Kept(h) == SelectSeq(h, WellFormed)
\* The messages after the first are the most recent well-formed entries of h, in
\* the order of h, each with its role and the text of its content.
InOrderOf(m, h) ==
    /\ Len(m) - 1 <= Len(Kept(h))
    /\ \A j \in 1..(Len(m) - 1) :
          LET e == Kept(h)[Len(Kept(h)) - (Len(m) - 1) + j]
          IN  m[1 + j] = [role |-> e.role, content |-> e.content.str]

\* C17: in the payload of a chat turn the system message is the first message
\* and the only one, the turns of the history follow in the order of the history,
\* and the last message is the user turn just submitted.
C17_SystemFirstUserLast ==
    (call.op = "chat_page" /\ ~call.raised) =>
        LET m == call.messages
            h == SubSeq(conversation_history, 1, Len(conversation_history) - 1)
        IN  /\ Len(m) >= 2
            /\ m[1].role = "system"
            /\ \A j \in 2..Len(m) : m[j].role # "system"
            /\ m[Len(m)] = [role |-> "user", content |-> call.user_query]
            /\ InOrderOf(m, h)

\* A turn on top of a history of 13 entries, one of them malformed, was sent as
\* 11 messages.
C17_Witness ==
    /\ call.op = "chat_page" /\ ~call.raised
    /\ Len(conversation_history) = 15
    /\ \E i \in 1..13 : ~WellFormed(conversation_history[i])
    /\ Len(call.messages) = 11

\* C18: building the payload does not raise; after the system message it holds
\* well-formed entries of the history only, with roles user and assistant, in the
\* order of the history: all of them when they are at most 10, the 10 most recent
\* otherwise; an entry that is not well-formed is in no message.
C18_MalformedDropped ==
    Answered =>
        LET m == call.messages
            h == conversation_history
        IN  /\ ~call.raised
            /\ m[1].role = "system"
            /\ \A j \in 2..Len(m) : m[j].role \in {"user", "assistant"}
            /\ Len(m) - 1 = Min(Len(Kept(h)), HistoryWindow)
            /\ InOrderOf(m, h)

\* A history of five entries, two of them malformed, was sent as the system
\* message and three turns.
C18_Witness ==
    /\ Answered
    /\ Len(conversation_history) = 5
    /\ Len(Kept(conversation_history)) = 3
    /\ conversation_history[3].role = "system"
    /\ Len(call.messages) = 4

\* C8: semantic_search and answer_query_with_groq return a (possibly empty or
\* degraded) result and never raise, whatever their collaborators do.
C8_NeverRaise ==
    /\ Searched => ~call.raised
    /\ Answered => ~call.raised

----------------------------------------------------------------------------
(* Properties of the embedder (SpecEmbed) *)

Indexed == call.op = "index_document"
SamePrefix(s, t) == PyPrefix(s, EmbedCap) = PyPrefix(t, EmbedCap)

\* C11: texts are cut to their first 4000 characters before they are embedded, on
\* the indexing path and on the query path alike: two stored documents whose
\* texts agree on their first 4000 characters have the same embedding, and a
\* query that agrees with a stored document's text on its first 4000 characters
\* has that document's embedding.
C11_SamePrefixSameEmbedding ==
    /\ \A i, j \in 1..Len(pdf_documents) :
          SamePrefix(pdf_documents[i].text_content, pdf_documents[j].text_content)
              => pdf_documents[i].embedding = pdf_documents[j].embedding
    /\ (Searched /\ ~call.raised) =>
          \A i \in 1..Len(call.scores) :
              LET c == call.scores[i]
              IN  SamePrefix(call.query, StoredRow(c.file_id).text_content)
                      => c.query_emb = c.pdf_emb

\* What the code does: the indexing path alone cuts the text.
C11_IndexPathTruncates ==
    /\ \A i, j \in 1..Len(pdf_documents) :
          SamePrefix(pdf_documents[i].text_content, pdf_documents[j].text_content)
              => pdf_documents[i].embedding = pdf_documents[j].embedding
    /\ (Indexed /\ call.outcome = "imported") =>
          call.embedding = JsonText(encode(embed_model, PyPrefix(call.text, EmbedCap)))
    /\ (Searched /\ ~call.raised) =>
          \A i \in 1..Len(call.scores) :
              call.scores[i].query_emb = encode(embed_model, call.query)

\* Two documents longer and not longer than the cap are stored, with one embedding.
C11_IndexWitness ==
    /\ Indexed /\ call.outcome = "imported"
    /\ Len(pdf_documents) = 2
    /\ Len(pdf_documents[1].text_content) = EmbedCap
    /\ Len(pdf_documents[2].text_content) > EmbedCap
    /\ pdf_documents[1].embedding = pdf_documents[2].embedding

PrimaryFailed(loads) == loads # <<>> /\ loads[1] = Load(PrimaryModel, FALSE)

\* C15: a call whose load of the primary model fails tries the secondary model,
\* once, and loads nothing else; if that load succeeds, the secondary model is
\* the session's model; if not, the call raises, the session still has no model,
\* the table is unchanged and the operation yields no stored embedding and no
\* search result.
C15_FallbackOnceThenRaise ==
    [][(call'.op \in {"index_document", "semantic_search"} /\ PrimaryFailed(call'.loads))
       => /\ embed_model = NoModel
          /\ Len(call'.loads) = 2
          /\ call'.loads[2].model = FallbackModel
          /\ call'.loads[2].loaded => embed_model' = FallbackModel
          /\ ~call'.loads[2].loaded =>
                /\ call'.raised
                /\ embed_model' = NoModel
                /\ pdf_documents' = pdf_documents
                /\ call'.op = "semantic_search" => call'.results = <<>>
                /\ call'.op = "index_document" =>
                      (call'.outcome = "error" /\ call'.embedding = SqlNull)]_vars

\* The primary load failed, the secondary model embedded and stored a document.
C15_Witness ==
    /\ Indexed /\ call.outcome = "imported"
    /\ call.loads = <<Load(PrimaryModel, FALSE), Load(FallbackModel, TRUE)>>
    /\ embed_model = FallbackModel
    /\ pdf_documents[1].embedding = JsonText(<<1, 0, 0>>)

----------------------------------------------------------------------------
(* Properties of the batch import (SpecImport) *)

\* C7: the documents of a batch are attempted one after another in the order of
\* the selection; a finished batch has attempted every selected document, whatever
\* failed on the way; and a document the batch has imported is in the table, with
\* the text imported, while and after the rest of the batch is processed.
C7_BatchNeverAborted ==
    batch.pc # "idle" =>
        /\ Len(batch.attempted) <= Len(batch.selected)
        /\ \A j \in 1..Len(batch.attempted) :
              /\ batch.attempted[j].file_id = batch.selected[j]
              /\ batch.attempted[j].outcome = "imported" =>
                    \E k \in 1..Len(pdf_documents) :
                        /\ pdf_documents[k].file_id = batch.selected[j]
                        /\ pdf_documents[k].user_id = SessionUser
                        /\ pdf_documents[k].text_content = TextOf(batch.selected[j])
        /\ batch.pc = "finished" => Len(batch.attempted) = Len(batch.selected)

\* A finished batch of three: the first document imported, the second failed
\* with an exception, the third imported all the same.
C7_Witness ==
    /\ batch.pc = "finished"
    /\ Len(batch.selected) = 3
    /\ batch.attempted[1].outcome = "imported"
    /\ batch.attempted[2].outcome = "error"
    /\ batch.attempted[3].outcome = "imported"
    /\ Len(pdf_documents) = 2

----------------------------------------------------------------------------
(* Properties of the session (SpecSession) *)

C23_ListerOnlyOnAbsentCache ==
    [][ /\ (call'.op = "import_page" /\ call'.listed) =>
              (drive_pdfs_cache = NoCache \/ call'.refreshed)
        /\ (call'.op = "import_page" /\ ~call'.refreshed /\ drive_pdfs_cache.cached) =>
              (~call'.listed /\ drive_pdfs_cache' = drive_pdfs_cache)
        /\ (drive_pdfs_cache'.cached /\ drive_pdfs_cache' # drive_pdfs_cache) =>
              (call'.op = "import_page" /\ call'.listed)
        /\ (drive_pdfs_cache.cached /\ ~drive_pdfs_cache'.cached) =>
              \/ call'.op = "sign_out"
              \/ call'.op = "import_page" /\ call'.refreshed
      ]_vars

\* The import page ran again, authenticated and without a refresh, over a cached
\* listing that is empty: no lister call, the empty listing stays.
C23_Witness ==
    /\ call.op = "import_page" /\ call.authenticated
    /\ ~call.refreshed /\ ~call.listed
    /\ drive_pdfs_cache = Cached(<<>>)
    /\ ~import_complete

----------------------------------------------------------------------------
(* Properties of the import page (SpecGate) *)

Imported(attempted) ==
    {j \in 1..Len(attempted) : attempted[j].outcome = "imported"}

\* C24: the count import_pdfs reports at its end is the number of documents of
\* the batch that were upserted (an iteration that changes the table is counted,
\* and a counted iteration has left the document's row, owned by the session's
\* user, as the newest row); import_complete is set at the end only when that
\* count is at least one; a set flag is reset only by Import More PDFs and
\* Continue to Chat; and while it is set no batch starts and the import page
\* fetches no listing.
C24_CountAndCompleteFlag ==
    [][ /\ call'.op = "import_document" =>
              LET counted == batch'.successful_imports = batch.successful_imports + 1
                  rows == pdf_documents'
              IN  /\ counted \/ batch'.successful_imports = batch.successful_imports
                  /\ pdf_documents' # pdf_documents => counted
                  /\ counted =>
                        /\ rows # <<>>
                        /\ rows[Len(rows)].file_id = call'.file_id
                        /\ rows[Len(rows)].user_id = SessionUser
                        /\ rows[Len(rows)].text_content = TextOf(call'.file_id)
        /\ call'.op = "import_pdfs_end" =>
              /\ call'.reported = Cardinality(Imported(batch.attempted))
              /\ ~import_complete
              /\ import_complete' => call'.reported >= 1
        /\ (import_complete' /\ ~import_complete) => call'.op = "import_pdfs_end"
        /\ (import_complete /\ ~import_complete') =>
              call'.op \in {"import_more", "continue_to_chat"}
        /\ import_complete =>
              /\ call'.op # "import_pdfs"
              /\ batch' = batch
              /\ call'.op = "import_page" =>
                    ~call'.listed /\ drive_pdfs_cache' = drive_pdfs_cache
      ]_vars

\* A batch of three ended with one document imported and two not (one raised,
\* one had no text): the count reported is one and the flag is set.
C24_Witness ==
    /\ call.op = "import_pdfs_end" /\ call.total_pdfs = 3 /\ call.reported = 1
    /\ batch.pc = "finished"
    /\ batch.attempted[1].outcome = "error"
    /\ batch.attempted[2].outcome = "imported"
    /\ batch.attempted[3].outcome = "no text"
    /\ Len(pdf_documents) = 1
    /\ import_complete

\* C25: the table changes only in an iteration of import_pdfs that got a Drive
\* service, which an authenticated session alone gets; the import page of a
\* session that is not authenticated fetches no listing and starts no batch; and
\* an iteration without a service writes nothing, counts nothing, reports the
\* document as without text and goes on to the next document.
C25_NoUpsertUnauthenticated ==
    [][ /\ pdf_documents' # pdf_documents =>
              /\ call'.op = "import_document" /\ call'.service
              /\ google_credentials' = "valid"
        /\ (call'.op = "import_document" /\ call'.service) =>
              \E refresh_ok \in BOOLEAN :
                  is_authenticated(google_credentials, refresh_ok).result
        /\ (call'.op = "import_document"
              /\ \A refresh_ok \in BOOLEAN :
                    ~is_authenticated(google_credentials, refresh_ok).result) =>
              ~call'.service
        /\ (call'.op = "import_document" /\ ~call'.service) =>
              /\ pdf_documents' = pdf_documents
              /\ last_upsert' = last_upsert
              /\ call'.outcome = "no text" /\ ~call'.computed
              /\ batch'.successful_imports = batch.successful_imports
              /\ batch'.pc = "running" /\ batch'.i = batch.i + 1
        /\ (call'.op = "import_page" /\ ~call'.authenticated) =>
              /\ ~call'.listed
              /\ drive_pdfs_cache' = drive_pdfs_cache
              /\ batch' = batch
        /\ call'.op = "import_pdfs" => google_credentials' = "valid"
      ]_vars

\* The token expired after the first document of a batch of three was
\* imported and could not be refreshed: the second and the third document were
\* attempted without a service and skipped, and the table holds the first only.
C25_Witness ==
    /\ call.op = "import_document" /\ ~call.service
    /\ google_credentials = "expired"
    /\ batch.pc = "running" /\ batch.i = 3 /\ Len(batch.selected) = 3
    /\ batch.attempted[1].outcome = "imported"
    /\ batch.attempted[2].outcome = "no text"
    /\ batch.attempted[3].outcome = "no text"
    /\ batch.successful_imports = 1
    /\ Len(pdf_documents) = 1 /\ pdf_documents[1].file_id = batch.selected[1]

====
